---- MODULE Spec2Model ----
(***************************************************************************)
(* A model of the iced demo application: the application shell             *)
(* (src/main.rs: AppState, Message, update, view, the tray bridge) and the *)
(* table component (src/data_table.rs: Table, TableMessage, update,        *)
(* on_window_event_debug, view).                                           *)
(*                                                                         *)
(* Text is modelled as a sequence of one-character strings, so that the    *)
(* substring searches and the number scraping of on_window_event_debug are *)
(* computed as the code computes them.  An f32 is modelled as an exact     *)
(* decimal [num, den] (den a power of ten, lowest terms): the inputs of    *)
(* the model are short decimals of moderate size, for which the f32        *)
(* comparisons and the floor of the row quotient agree with the exact ones.*)
(***************************************************************************)
EXTENDS Integers, Sequences, FiniteSets, TLC

VARIABLES
    show_confirm,   \* AppState.show_confirm
    main_table,     \* AppState.main_table: a Table record
    running,        \* FALSE once std::process::exit has been called
    channel,        \* the mpsc channel of tray menu identifiers (tx -> rx)
    registry,       \* TRAY_ICON_MENU_ITEM_IDS: label -> Option<MenuId>
    last,           \* history: the operation performed by the latest step
    pc,             \* the position of main: its start-up steps, then "run"
    sent,           \* history: the identifiers the tray thread has sent
    received        \* history: the identifiers try_recv has returned

vars == <<show_confirm, main_table, running, channel, registry, last,
          pc, sent, received>>

\* the channel with the two histories of its traffic
bridge == <<channel, sent, received>>

----------------------------------------------------------------------------
(* Option<T> *)

None == << >>
Some(v) == <<v>>
IsSome(o) == o # None
Unwrap(o) == o[1]

----------------------------------------------------------------------------
(* f32 values as exact decimals *)

RECURSIVE Normalize(_, _)
Normalize(num, den) ==
    IF den > 1 /\ num % 10 = 0
    THEN Normalize(num \div 10, den \div 10)
    ELSE [num |-> num, den |-> den]

Dec(num, den) == Normalize(num, den)
F(n) == [num |-> n, den |-> 1]
Gt(a, b) == a.num * b.den > b.num * a.den

RECURSIVE Pow10(_)
Pow10(k) == IF k = 0 THEN 1 ELSE 10 * Pow10(k - 1)

----------------------------------------------------------------------------
(* Text: sequences of characters *)

Digits == <<"0", "1", "2", "3", "4", "5", "6", "7", "8", "9">>
IsDigit(c) == \E d \in 1..10 : Digits[d] = c
DigitVal(c) == (CHOOSE d \in 1..10 : Digits[d] = c) - 1
IsWhitespace(c) == c = " "

STR_CursorMoved == <<"C", "u", "r", "s", "o", "r", "M", "o", "v", "e", "d">>
STR_MovedParen == <<"M", "o", "v", "e", "d", "(">>
STR_MovedPoint == <<"M", "o", "v", "e", "d", "P", "o", "i", "n", "t">>
STR_XColon == <<"x", ":">>
STR_YColon == <<"y", ":">>
STR_MouseInput == <<"M", "o", "u", "s", "e", "I", "n", "p", "u", "t">>
STR_MouseButton == <<"M", "o", "u", "s", "e", "B", "u", "t", "t", "o", "n">>
STR_ButtonPressed == <<"B", "u", "t", "t", "o", "n", "P", "r", "e", "s", "s", "e", "d">>
STR_Pressed == <<"P", "r", "e", "s", "s", "e", "d">>
STR_Right == <<"R", "i", "g", "h", "t">>
STR_Left == <<"L", "e", "f", "t">>
STR_Focused == <<"F", "o", "c", "u", "s", "e", "d">>
STR_PointOpen == <<"P", "o", "i", "n", "t", " ", "{", " ", "x", ":", " ">>
STR_CommaY == <<",", " ", "y", ":", " ">>
STR_BraceClose == <<" ", "}">>
STR_CursorMovedOpen == <<"C", "u", "r", "s", "o", "r", "M", "o", "v", "e", "d", " ", "{", " ", "p", "o", "s", "i", "t", "i", "o", "n", ":", " ">>
STR_Cursor == <<"C", "u", "r", "s", "o", "r">>
STR_ParenOpen == <<"(">>
STR_ParenClose == <<")">>
STR_XLabel == <<" ", "x", ":", " ">>
STR_YLabel == <<" ", "y", ":", " ">>
STR_Space == <<" ">>

\* str::contains
Contains(s, pat) ==
    \E i \in 1..(Len(s) - Len(pat) + 1) : SubSeq(s, i, i + Len(pat) - 1) = pat

\* str::find: the byte offset (0-based) of the first match
Find(s, pat) ==
    LET hits == {i \in 1..(Len(s) - Len(pat) + 1) : SubSeq(s, i, i + Len(pat) - 1) = pat}
    IN  IF hits = {} THEN None
        ELSE Some((CHOOSE i \in hits : \A j \in hits : i <= j) - 1)

\* str::trim_start
RECURSIVE TrimStart(_)
TrimStart(s) ==
    IF s # << >> /\ IsWhitespace(Head(s)) THEN TrimStart(Tail(s)) ELSE s

\* chars().take_while(|c| c.is_ascii_digit() || *c == '.' || *c == '-').collect()
IsNumChar(c) == IsDigit(c) \/ c = "." \/ c = "-"

RECURSIVE TakeWhileNum(_)
TakeWhileNum(s) ==
    IF s # << >> /\ IsNumChar(Head(s))
    THEN <<Head(s)>> \o TakeWhileNum(Tail(s))
    ELSE << >>

RECURSIVE NatOf(_)
NatOf(s) ==
    IF s = << >> THEN 0
    ELSE NatOf(SubSeq(s, 1, Len(s) - 1)) * 10 + DigitVal(s[Len(s)])

AllDigits(s) == \A i \in 1..Len(s) : IsDigit(s[i])

\* str::parse::<f32> on text made of digits, '.' and '-': Some(value) for
\* an optional '-', then digits with at most one '.', at least one digit.
\* the value of integer digits ip and fraction digits fp, None unless both
\* are digits only and one of them is not empty
ParseParts(neg, ip, fp) ==
    IF AllDigits(ip) /\ AllDigits(fp) /\ Len(ip) + Len(fp) > 0
    THEN Some(Dec((IF neg THEN -1 ELSE 1) * (NatOf(ip) * Pow10(Len(fp)) + NatOf(fp)),
                  Pow10(Len(fp))))
    ELSE None

\* the position of the first '.', Len + 1 when there is none
DotIndex(body) ==
    IF \E i \in 1..Len(body) : body[i] = "."
    THEN CHOOSE i \in 1..Len(body) :
            body[i] = "." /\ \A j \in 1..(i - 1) : body[j] # "."
    ELSE Len(body) + 1

ParseSplit(neg, body, dot) ==
    ParseParts(neg, SubSeq(body, 1, dot - 1), SubSeq(body, dot + 1, Len(body)))

ParseF32(s) ==
    IF s # << >> /\ Head(s) = "-"
    THEN ParseSplit(TRUE, Tail(s), DotIndex(Tail(s)))
    ELSE ParseSplit(FALSE, s, DotIndex(s))

RECURSIVE DigitsOf(_)
DigitsOf(n) ==
    IF n < 10 THEN <<Digits[n + 1]>>
    ELSE DigitsOf(n \div 10) \o <<Digits[(n % 10) + 1]>>

RECURSIVE ZeroPad(_, _)
ZeroPad(s, k) == IF Len(s) >= k THEN s ELSE ZeroPad(<<"0">> \o s, k)

RECURSIVE Log10(_)
Log10(den) == IF den = 1 THEN 0 ELSE 1 + Log10(den \div 10)

\* {:?} of an f32 in decimal notation: sign, integer part, '.', fraction
\* (".0" for a whole number)
FmtAbs(a, den) ==
    DigitsOf(a \div den) \o <<".">>
    \o (IF den = 1 THEN <<"0">> ELSE ZeroPad(DigitsOf(a % den), Log10(den)))

FmtF32(v) ==
    IF v.num < 0 THEN <<"-">> \o FmtAbs(0 - v.num, v.den) ELSE FmtAbs(v.num, v.den)

----------------------------------------------------------------------------
(* The event fixture and the table state (src/data_table.rs) *)

\* Event::list(): name, duration in minutes, price and rating as decimals
EventList == <<
    [name |-> "Get lost in a hacker bookstore", minutes |-> 120, price |-> Dec(0, 1), rating |-> Dec(49, 10)],
    [name |-> "Buy vintage synth at Noisebridge flea market", minutes |-> 60, price |-> Dec(150, 1), rating |-> Dec(48, 10)],
    [name |-> "Eat a questionable hot dog at 2AM", minutes |-> 20, price |-> Dec(5, 1), rating |-> Dec(17, 10)],
    [name |-> "Ride the MUNI for the story", minutes |-> 60, price |-> Dec(3, 1), rating |-> Dec(41, 10)],
    [name |-> "Scream into the void from Twin Peaks", minutes |-> 40, price |-> Dec(0, 1), rating |-> Dec(49, 10)],
    [name |-> "Buy overpriced coffee and feel things", minutes |-> 25, price |-> Dec(65, 10), rating |-> Dec(45, 10)],
    [name |-> "Attend an underground robot poetry slam", minutes |-> 60, price |-> Dec(12, 1), rating |-> Dec(48, 10)],
    [name |-> "Browse cursed tech at a retro computer fair", minutes |-> 120, price |-> Dec(10, 1), rating |-> Dec(47, 10)],
    [name |-> "Try to order at a secret ramen place with no sign", minutes |-> 50, price |-> Dec(14, 1), rating |-> Dec(46, 10)],
    [name |-> "Join a spontaneous rooftop drone rave", minutes |-> 180, price |-> Dec(0, 1), rating |-> Dec(49, 10)],
    [name |-> "Sketch a stranger at Dolores Park", minutes |-> 45, price |-> Dec(0, 1), rating |-> Dec(44, 10)],
    [name |-> "Visit the Museum of Obsolete APIs", minutes |-> 60, price |-> Dec(999, 100), rating |-> Dec(42, 10)],
    [name |-> "Chase the last working payphone", minutes |-> 35, price |-> Dec(25, 100), rating |-> Dec(4, 1)],
    [name |-> "Trade zines with a punk on BART", minutes |-> 30, price |-> Dec(35, 10), rating |-> Dec(47, 10)],
    [name |-> "Get a tattoo of the Git logo", minutes |-> 60, price |-> Dec(200, 1), rating |-> Dec(46, 10)] >>

\* impl Default for Table
TableDefault ==
    [events       |-> EventList,
     padding      |-> <<F(10), F(5)>>,
     separator    |-> <<F(1), F(1)>>,
     selected     |-> None,
     last_cursor  |-> None,
     context_menu |-> None]

\* TableMessage constructors
PaddingChanged(x, y) == [tag |-> "PaddingChanged", x |-> x, y |-> y]
SeparatorChanged(x, y) == [tag |-> "SeparatorChanged", x |-> x, y |-> y]
ShowDetails(idx) == [tag |-> "ShowDetails", idx |-> idx]
HideDetails == [tag |-> "HideDetails"]
HideContext == [tag |-> "HideContext"]

\* update storing a pair with its coordinates exchanged
TableUpdateSwapped(self, message) ==
    CASE message.tag = "PaddingChanged"   -> [self EXCEPT !.padding = <<message.y, message.x>>]
      [] message.tag = "SeparatorChanged" -> [self EXCEPT !.separator = <<message.y, message.x>>]
      [] message.tag = "ShowDetails"      -> [self EXCEPT !.selected = Some(message.idx)]
      [] message.tag = "HideDetails"      -> [self EXCEPT !.selected = None]
      [] message.tag = "HideContext"      -> [self EXCEPT !.context_menu = None]

\* update with HideDetails closing the context menu as well
TableUpdateHideAll(self, message) ==
    CASE message.tag = "PaddingChanged"   -> [self EXCEPT !.padding = <<message.x, message.y>>]
      [] message.tag = "SeparatorChanged" -> [self EXCEPT !.separator = <<message.x, message.y>>]
      [] message.tag = "ShowDetails"      -> [self EXCEPT !.selected = Some(message.idx)]
      [] message.tag = "HideDetails"      ->
            [self EXCEPT !.selected = None, !.context_menu = None]
      [] message.tag = "HideContext"      -> [self EXCEPT !.context_menu = None]

\* update with ShowDetails closing the context menu it came from
TableUpdateShowClosesMenu(self, message) ==
    CASE message.tag = "PaddingChanged"   -> [self EXCEPT !.padding = <<message.x, message.y>>]
      [] message.tag = "SeparatorChanged" -> [self EXCEPT !.separator = <<message.x, message.y>>]
      [] message.tag = "ShowDetails"      ->
            [self EXCEPT !.selected = Some(message.idx), !.context_menu = None]
      [] message.tag = "HideDetails"      -> [self EXCEPT !.selected = None]
      [] message.tag = "HideContext"      -> [self EXCEPT !.context_menu = None]

\* Table::update
TableUpdate(self, message) ==
    CASE message.tag = "PaddingChanged"   -> [self EXCEPT !.padding = <<message.x, message.y>>]
      [] message.tag = "SeparatorChanged" -> [self EXCEPT !.separator = <<message.x, message.y>>]
      [] message.tag = "ShowDetails"      -> [self EXCEPT !.selected = Some(message.idx)]
      [] message.tag = "HideDetails"      -> [self EXCEPT !.selected = None]
      [] message.tag = "HideContext"      -> [self EXCEPT !.context_menu = None]

\* the number scraped after the first occurrence of a label ("x:" or "y:")
\* the scrape without trim_start
ScrapeAtUntrimmed(debug, at) ==
    IF IsSome(at)
    THEN ParseF32(TakeWhileNum(SubSeq(debug, Unwrap(at) + 2 + 1, Len(debug))))
    ELSE None

ScrapeAt(debug, at) ==
    IF IsSome(at)
    THEN ParseF32(TakeWhileNum(TrimStart(SubSeq(debug, Unwrap(at) + 2 + 1, Len(debug)))))
    ELSE None

ScrapeNumber(debug, label) == ScrapeAt(debug, Find(debug, label))

\* a pair built whenever y was parsed, x defaulting to 0
BothParsedHalf(x_opt, y_opt) ==
    IF IsSome(y_opt)
    THEN Some(<<IF IsSome(x_opt) THEN Unwrap(x_opt) ELSE F(0), Unwrap(y_opt)>>)
    ELSE None

\* if let (Some(xv), Some(yv)) = (x_opt, y_opt)
BothParsed(x_opt, y_opt) ==
    IF IsSome(x_opt) /\ IsSome(y_opt)
    THEN Some(<<Unwrap(x_opt), Unwrap(y_opt)>>)
    ELSE None

\* on_window_event_debug, first half: the cursor position a description
\* yields, None when it yields none
ParseCursor(debug) ==
    IF Contains(debug, STR_CursorMoved) \/ Contains(debug, STR_MovedParen)
       \/ Contains(debug, STR_MovedPoint)
    THEN BothParsed(ScrapeNumber(debug, STR_XColon), ScrapeNumber(debug, STR_YColon))
    ELSE None

\* on_window_event_debug, second half: the right-button test
RightPressed(debug) ==
    /\ \/ Contains(debug, STR_MouseInput)
       \/ Contains(debug, STR_MouseButton)
       \/ Contains(debug, STR_ButtonPressed)
       \/ Contains(debug, STR_Pressed)
    /\ Contains(debug, STR_Right)

header_h == 36
row_h == 36

\* `as usize` of a floored f32: negative values saturate to 0
AsUsize(v) == IF v < 0 THEN 0 ELSE v

\* the row index without the header offset
RowIndexNoHeader(y) == AsUsize(y.num \div (row_h * y.den))

\* ((y - header_h) / row_h).floor() as usize
RowIndex(y) == AsUsize((y.num - header_h * y.den) \div (row_h * y.den))

\* the context menu opened without the test against the number of events
ContextAtUnchecked(self, x, y) ==
    IF Gt(y, F(header_h))
    THEN Some(<<RowIndex(y), x, y>>)
    ELSE self.context_menu

\* the context menu a right-button press opens at the cursor, if any
ContextAt(self, x, y) ==
    IF Gt(y, F(header_h)) /\ RowIndex(y) < Len(self.events)
    THEN Some(<<RowIndex(y), x, y>>)
    ELSE self.context_menu

----------------------------------------------------------------------------
(* Window events and their Debug text *)

\* {:?} of Point { x, y }
FmtPoint(x, y) == STR_PointOpen \o FmtF32(x) \o STR_CommaY \o FmtF32(y) \o STR_BraceClose

\* format!("{event:?}") for the event descriptions of the model.  "Described"
\* is a synthetic description: an optional move marker, optional " x: <text>"
\* and " y: <text>" parts taken verbatim, an optional right-button marker.
DebugFmt(event) ==
    CASE event.kind = "CloseRequested" -> <<"C", "l", "o", "s", "e", "R", "e", "q", "u", "e", "s", "t", "e", "d">>
      [] event.kind = "Focused" -> STR_Focused
      [] event.kind = "Moved" ->
            STR_MovedParen \o FmtPoint(event.x, event.y) \o STR_ParenClose
      [] event.kind = "CursorMoved" ->
            STR_CursorMovedOpen \o FmtPoint(event.x, event.y) \o STR_BraceClose
      [] event.kind = "ButtonPressed" ->
            STR_ButtonPressed \o STR_ParenOpen
            \o (IF event.button = "Right" THEN STR_Right ELSE STR_Left)
            \o STR_ParenClose
      [] event.kind = "Described" ->
            (IF event.moved THEN STR_CursorMoved ELSE STR_Cursor)
            \o (IF IsSome(event.xtext) THEN STR_XLabel \o Unwrap(event.xtext) ELSE << >>)
            \o (IF IsSome(event.ytext) THEN STR_YLabel \o Unwrap(event.ytext) ELSE << >>)
            \o (IF event.right
                THEN STR_Space \o STR_ButtonPressed \o STR_ParenOpen \o STR_Right \o STR_ParenClose
                ELSE << >>)

CloseRequested == [kind |-> "CloseRequested"]

Described(moved, xtext, ytext, right) ==
    [kind |-> "Described", moved |-> moved, xtext |-> xtext, ytext |-> ytext, right |-> right]

TXT_10 == <<"1", "0">>
TXT_100 == <<"1", "0", "0">>
TXT_Minus == <<"-">>
TXT_TwoDots == <<"1", ".", "2", ".", "3">>

\* the window events of the model
WindowEvents ==
    {CloseRequested,
     [kind |-> "Focused"],
     [kind |-> "Moved", x |-> Dec(7, 1), y |-> Dec(576, 1)],
     [kind |-> "CursorMoved", x |-> Dec(2505, 10), y |-> Dec(36, 1)],
     [kind |-> "CursorMoved", x |-> Dec(-3, 1), y |-> Dec(5759, 10)],
     [kind |-> "ButtonPressed", button |-> "Right"],
     [kind |-> "ButtonPressed", button |-> "Left"],
     Described(TRUE, Some(TXT_10), Some(TXT_100), TRUE),
     Described(FALSE, Some(TXT_10), Some(TXT_100), TRUE),
     Described(TRUE, Some(TXT_Minus), Some(TXT_100), FALSE),
     Described(TRUE, Some(TXT_10), None, FALSE),
     Described(TRUE, Some(TXT_TwoDots), Some(TXT_100), TRUE)}

\* The Debug text of every window event of the model and what the two
\* halves of on_window_event_debug read from it, computed once per text.
DebugText == [e \in WindowEvents |-> DebugFmt(e)]
Scraped ==
    [d \in {DebugText[e] : e \in WindowEvents} |->
        [cursor |-> ParseCursor(d), right |-> RightPressed(d)]]

----------------------------------------------------------------------------
(* The table's window-event handler and view *)

\* Table::on_window_event_debug
\* lines 48-73: the cursor position is replaced when one was parsed
CursorUpdate(self, parsed) ==
    IF IsSome(parsed) THEN [self EXCEPT !.last_cursor = parsed] ELSE self

\* lines 77-92: a right-button press with a known cursor position
RightClick(self, right) ==
    IF right /\ IsSome(self.last_cursor)
    THEN [self EXCEPT !.context_menu =
            ContextAt(self, Unwrap(self.last_cursor)[1], Unwrap(self.last_cursor)[2])]
    ELSE self

on_window_event_debug(self, debug) ==
    RightClick(CursorUpdate(self, Scraped[debug].cursor), Scraped[debug].right)

\* a lookup that clamps the index to the last row
EventsGetClamped(events, idx) ==
    Some(events[IF idx < Len(events) THEN idx + 1 ELSE Len(events)])

\* events.get(idx): rows are indexed from 0
EventsGet(events, idx) ==
    IF idx < Len(events) THEN Some(events[idx + 1]) ELSE None

\* the values a slider can report: the ends of its range
PaddingRange == {F(0), F(30)}
SeparatorRange == {F(0), F(5)}

\* the view without the early return of the modal path
TableViewNoReturn(self) ==
    [modal    |-> IsSome(self.selected) /\ IsSome(EventsGet(self.events, Unwrap(self.selected))),
     context  |-> IsSome(self.context_menu),
     rows     |-> TRUE,
     messages |-> {HideDetails, HideContext}]

\* Table::view: what is on screen (modal overlay, context menu, table rows
\* with the sliders) and the messages its widgets emit
TableView(self) ==
    IF IsSome(self.selected) /\ IsSome(EventsGet(self.events, Unwrap(self.selected)))
    THEN [modal    |-> TRUE,
          context  |-> FALSE,
          rows     |-> FALSE,
          messages |-> {HideDetails}]
    ELSE [modal    |-> FALSE,
          context  |-> IsSome(self.context_menu),
          rows     |-> TRUE,
          messages |->
              {ShowDetails(i - 1) : i \in 1..Len(self.events)}
              \cup {PaddingChanged(v, self.padding[2]) : v \in PaddingRange}
              \cup {PaddingChanged(self.padding[1], v) : v \in PaddingRange}
              \cup {SeparatorChanged(v, self.separator[2]) : v \in SeparatorRange}
              \cup {SeparatorChanged(self.separator[1], v) : v \in SeparatorRange}
              \cup (IF IsSome(self.context_menu)
                    THEN {ShowDetails(Unwrap(self.context_menu)[1]), HideContext}
                    ELSE {})]

----------------------------------------------------------------------------
(* The application shell (src/main.rs) *)

STR_SHOW == "Show"
STR_QUIT == "Quit"

\* the identifiers of the two tray menu items, and one of neither
SHOW_ID == "show_item"
QUIT_ID == "quit_item"
OTHER_ID == "other_item"
MenuIds == {SHOW_ID, QUIT_ID, OTHER_ID}

\* Message constructors
WindowEvent(event) == [tag |-> "WindowEvent", event |-> event]
TrayIconEvent(id) == [tag |-> "TrayIconEvent", id |-> id]
ConfirmExit == [tag |-> "ConfirmExit"]
CancelExit == [tag |-> "CancelExit"]
TbMsg(msg) == [tag |-> "TbMsg", msg |-> msg]
Noop == [tag |-> "Noop"]

\* handle_tray_icon_event without the quit branch
handle_tray_icon_event_no_quit(event_id) ==
    [show |-> IsSome(registry[STR_SHOW]) /\ event_id = Unwrap(registry[STR_SHOW]),
     exit |-> FALSE]

\* handle_tray_icon_event quitting on every identifier that is not Show
handle_tray_icon_event_else_quit(event_id) ==
    [show |-> IsSome(registry[STR_SHOW]) /\ event_id = Unwrap(registry[STR_SHOW]),
     exit |-> ~(IsSome(registry[STR_SHOW]) /\ event_id = Unwrap(registry[STR_SHOW]))]

\* handle_tray_icon_event: which item the identifier resolves to (logged),
\* and whether std::process::exit is called
handle_tray_icon_event(event_id) ==
    LET quit_id == registry[STR_QUIT]
        show_id == registry[STR_SHOW]
    IN  [show |-> IsSome(show_id) /\ event_id = Unwrap(show_id),
         exit |-> IsSome(quit_id) /\ event_id = Unwrap(quit_id)]

\* the arm of update for Message::WindowEvent(CloseRequested)
close_requested_exits(state) == [state EXCEPT !.exited = TRUE]
close_requested(state) == [state EXCEPT !.show_confirm = TRUE]

\* the arm of update for Message::CancelExit
cancel_exit_resets(state) ==
    [state EXCEPT !.show_confirm = FALSE, !.main_table = TableDefault]
cancel_exit(state) == [state EXCEPT !.show_confirm = FALSE]

\* update with table messages dropped while the confirmation is shown
update_by_state(state, message) ==
    CASE message.tag = "WindowEvent" /\ message.event = CloseRequested ->
            close_requested(state)
      [] message.tag = "WindowEvent" /\ message.event # CloseRequested ->
            [state EXCEPT !.main_table = on_window_event_debug(@, DebugText[message.event])]
      [] message.tag = "ConfirmExit" ->
            [state EXCEPT !.exited = TRUE]
      [] message.tag = "TrayIconEvent" ->
            [state EXCEPT !.exited = handle_tray_icon_event(message.id).exit]
      [] message.tag = "TbMsg" ->
            IF state.show_confirm THEN state
            ELSE [state EXCEPT !.main_table = TableUpdate(@, message.msg)]
      [] message.tag = "CancelExit" ->
            cancel_exit(state)
      [] message.tag = "Noop" -> state

\* update: state is [show_confirm, main_table, exited], exited standing
\* for std::process::exit(0) having been called
update(state, message) ==
    CASE message.tag = "WindowEvent" /\ message.event = CloseRequested ->
            close_requested(state)
      [] message.tag = "WindowEvent" /\ message.event # CloseRequested ->
            [state EXCEPT !.main_table = on_window_event_debug(@, DebugText[message.event])]
      [] message.tag = "ConfirmExit" ->
            [state EXCEPT !.exited = TRUE]
      [] message.tag = "TrayIconEvent" ->
            [state EXCEPT !.exited = handle_tray_icon_event(message.id).exit]
      [] message.tag = "TbMsg" ->
            [state EXCEPT !.main_table = TableUpdate(@, message.msg)]
      [] message.tag = "CancelExit" ->
            cancel_exit(state)
      [] message.tag = "Noop" -> state

\* a view with the Confirm button next to the table as well
view_confirm_everywhere(state) ==
    IF state.show_confirm
    THEN [dialog |-> TRUE, table |-> FALSE, messages |-> {ConfirmExit, CancelExit}]
    ELSE [dialog |-> FALSE, table |-> TRUE,
          messages |-> {TbMsg(m) : m \in TableView(state.main_table).messages}
                       \cup {ConfirmExit}]

\* view: the confirmation dialog or the table view mapped into TbMsg
view(state) ==
    IF state.show_confirm
    THEN [dialog |-> TRUE, table |-> FALSE, messages |-> {ConfirmExit, CancelExit}]
    ELSE [dialog |-> FALSE, table |-> TRUE,
          messages |-> {TbMsg(m) : m \in TableView(state.main_table).messages}]

----------------------------------------------------------------------------
(* The state machine *)

\* bounds of the model
MaxChannel == 1
MaxIdx == 15

\* the inputs of the model
PaddingInputs == {<<F(0), F(30)>>}
SeparatorInputs == {<<F(5), F(0)>>}
IdxInputs == {0, Len(EventList) - 1} \cup (Len(EventList)..MaxIdx)

TableMessages ==
    {PaddingChanged(p[1], p[2]) : p \in PaddingInputs}
    \cup {SeparatorChanged(p[1], p[2]) : p \in SeparatorInputs}
    \cup {ShowDetails(i) : i \in IdxInputs}
    \cup {HideDetails, HideContext}

\* the state after AppState::default() and the start-up code of main
Init ==
    /\ show_confirm = FALSE
    /\ main_table = TableDefault
    /\ running = TRUE
    /\ channel = << >>
    /\ registry = (STR_SHOW :> Some(SHOW_ID)) @@ (STR_QUIT :> Some(QUIT_ID))
    /\ last = [tag |-> "Init"]
    /\ pc = "run"
    /\ sent = << >>
    /\ received = << >>

\* the runtime passes one message to update; nothing runs after exit
Process(message) ==
    /\ running
    /\ pc = "run"
    /\ LET s == update([show_confirm |-> show_confirm,
                        main_table   |-> main_table,
                        exited       |-> FALSE], message)
       IN  /\ show_confirm' = s.show_confirm
           /\ main_table' = s.main_table
           /\ running' = ~s.exited
    /\ last' = message
    /\ UNCHANGED <<registry, pc>>

\* window::events(): a close request
OnCloseRequested ==
    Process(WindowEvent(CloseRequested)) /\ UNCHANGED bridge

\* window::events(): any other window event
OnWindowEvent ==
    \E e \in WindowEvents \ {CloseRequested} :
        Process(WindowEvent(e)) /\ UNCHANGED bridge

\* the Confirm button
OnConfirmExit == Process(ConfirmExit) /\ UNCHANGED bridge

\* the Cancel button
OnCancelExit == Process(CancelExit) /\ UNCHANGED bridge

\* a table message
OnTbMsg ==
    \E m \in TableMessages : Process(TbMsg(m)) /\ UNCHANGED bridge

\* the 100 ms timer: try_recv on the channel, the result handed to update
Tick ==
    /\ IF channel # << >>
       THEN Process(TrayIconEvent(Head(channel))) /\ channel' = Tail(channel)
       ELSE Process(Noop) /\ UNCHANGED channel
    /\ UNCHANGED <<sent, received>>

\* the tray thread forwards a menu click into the channel
TraySend ==
    \E id \in MenuIds :
        /\ running
        /\ pc = "run"
        /\ Len(channel) < MaxChannel
        /\ channel' = Append(channel, id)
        /\ last' = [tag |-> "TraySend", id |-> id]
        /\ UNCHANGED <<show_confirm, main_table, running, registry, pc, sent, received>>

Next ==
    \/ OnCloseRequested
    \/ OnWindowEvent
    \/ OnConfirmExit
    \/ OnCancelExit
    \/ OnTbMsg
    \/ Tick
    \/ TraySend

Spec == Init /\ [][Next]_vars

----------------------------------------------------------------------------
(* The application driven through its rendered view *)

\* the slider moves taken as inputs: the first padding slider to the end of
\* its range, the second separator slider to the start of its range
SliderMoves == {PaddingChanged(F(30), F(5)), SeparatorChanged(F(1), F(0))}

IsSliderMove(m) == m.tag = "TbMsg" /\ m.msg.tag \in {"PaddingChanged", "SeparatorChanged"}

\* a widget of the current view is operated: a button pressed, a slider moved
ViewPress ==
    \E m \in view([show_confirm |-> show_confirm, main_table |-> main_table]).messages :
        /\ IsSliderMove(m) => m.msg \in SliderMoves
        /\ Process(m)
        /\ UNCHANGED bridge

NextView ==
    \/ OnCloseRequested
    \/ OnWindowEvent
    \/ ViewPress

\* window events from the runtime, every other message from the view
SpecView == Init /\ [][NextView]_vars

----------------------------------------------------------------------------
(* The program from the first line of main: start-up, then the tray bridge *)

\* a bound on the clicks the tray thread forwards in one run
MaxSends == 3

\* main with the Quit item never registered
main_step_quit_unregistered(state) ==
    CASE state.pc = "start" -> [state EXCEPT !.pc = "menu"]
      [] state.pc = "menu" -> [state EXCEPT !.pc = "register_show"]
      [] state.pc = "register_show" ->
            [pc |-> "register_quit",
             registry |-> [state.registry EXCEPT ![STR_SHOW] = Some(SHOW_ID)]]
      [] state.pc = "register_quit" -> [state EXCEPT !.pc = "icon"]
      [] state.pc = "icon" -> [state EXCEPT !.pc = "spawn"]
      [] state.pc = "spawn" -> [state EXCEPT !.pc = "run"]

\* the start-up code of main, a step at a time; state is [pc, registry]:
\*   start          the channel and the receiver static (lines 105-109)
\*   menu           the menu and its two items (112-116)
\*   register_show  the Show identifier inserted (118)
\*   register_quit  the Quit identifier inserted (119)
\*   icon           the icon decoded, the tray icon created (122-132)
\*   spawn          the forwarding thread spawned (133-139)
\*   run            iced::application(..).run() (141-158)
main_step(state) ==
    CASE state.pc = "start" -> [state EXCEPT !.pc = "menu"]
      [] state.pc = "menu" -> [state EXCEPT !.pc = "register_show"]
      [] state.pc = "register_show" ->
            [pc |-> "register_quit",
             registry |-> [state.registry EXCEPT ![STR_SHOW] = Some(SHOW_ID)]]
      [] state.pc = "register_quit" ->
            [pc |-> "icon",
             registry |-> [state.registry EXCEPT ![STR_QUIT] = Some(QUIT_ID)]]
      [] state.pc = "icon" -> [state EXCEPT !.pc = "spawn"]
      [] state.pc = "spawn" -> [state EXCEPT !.pc = "run"]

\* the state at the first line of main: nothing registered yet
InitMain ==
    /\ show_confirm = FALSE
    /\ main_table = TableDefault
    /\ running = TRUE
    /\ channel = << >>
    /\ registry = (STR_SHOW :> None) @@ (STR_QUIT :> None)
    /\ last = [tag |-> "Init"]
    /\ pc = "start"
    /\ sent = << >>
    /\ received = << >>

\* one start-up step of main
MainStep ==
    /\ running
    /\ pc # "run"
    /\ pc' = main_step([pc |-> pc, registry |-> registry]).pc
    /\ registry' = main_step([pc |-> pc, registry |-> registry]).registry
    /\ last' = [tag |-> "MainStep", pc |-> pc]
    /\ UNCHANGED <<show_confirm, main_table, running, channel, sent, received>>

\* a `?` of the start-up code returns an error from main: menu.append,
\* image::load_from_memory, Icon::from_rgba, TrayIcon::new
StartupError ==
    /\ running
    /\ pc \in {"menu", "icon"}
    /\ running' = FALSE
    /\ last' = [tag |-> "StartupError", pc |-> pc]
    /\ UNCHANGED <<show_confirm, main_table, channel, registry, pc, sent, received>>

\* try_recv handing out the newest identifier
try_recv_newest(ch) ==
    IF ch # << >>
    THEN [result |-> Some(ch[Len(ch)]), rest |-> SubSeq(ch, 1, Len(ch) - 1)]
    ELSE [result |-> None, rest |-> ch]

\* Receiver::try_recv: the oldest identifier, if any, and what stays queued
try_recv(ch) ==
    IF ch # << >>
    THEN [result |-> Some(Head(ch)), rest |-> Tail(ch)]
    ELSE [result |-> None, rest |-> ch]

\* the tray thread forwards a menu click: tx.send on the unbounded channel
BridgeSend ==
    \E id \in MenuIds :
        /\ running
        /\ pc = "run"
        /\ Len(sent) < MaxSends
        /\ channel' = Append(channel, id)
        /\ sent' = Append(sent, id)
        /\ last' = [tag |-> "TraySend", id |-> id]
        /\ UNCHANGED <<show_confirm, main_table, running, registry, pc, received>>

\* the 100 ms timer: one try_recv, mapped to TrayIconEvent or Noop and
\* handed to update
BridgeTick ==
    /\ IF IsSome(try_recv(channel).result)
       THEN /\ Process(TrayIconEvent(Unwrap(try_recv(channel).result)))
            /\ received' = Append(received, Unwrap(try_recv(channel).result))
       ELSE /\ Process(Noop)
            /\ UNCHANGED received
    /\ channel' = try_recv(channel).rest
    /\ UNCHANGED sent

NextMain ==
    \/ MainStep
    \/ StartupError
    \/ BridgeSend
    \/ BridgeTick
    \/ OnCloseRequested
    \/ OnConfirmExit
    \/ OnCancelExit

\* the timer keeps firing while the application runs
SpecMain == InitMain /\ [][NextMain]_vars /\ WF_vars(BridgeTick)

----------------------------------------------------------------------------
(* Properties *)

\* every step records its operation in last', so in a step that changes the
\* state, last' names the message update has just processed
Processed(message) == last' = message
IsOtherWindowEvent(op) == op.tag = "WindowEvent" /\ op.event # CloseRequested

\* floor((y - 36) / 36), computed exactly
DerivedRow(y) == (y.num - 36 * y.den) \div (36 * y.den)

\* C1: processing a close request never terminates the process: it sets
\* show_confirm, leaves main_table as it was, and show_confirm then stays
\* true over every later message except CancelExit and ConfirmExit.
C1_CloseRequestOpensConfirm ==
    [][ /\ Processed(WindowEvent(CloseRequested)) =>
              running' /\ show_confirm' = TRUE /\ main_table' = main_table
        /\ (show_confirm /\ last' \notin {CancelExit, ConfirmExit}) => show_confirm'
      ]_vars

\* a close request processed in a state whose table is no longer the default
C1_Witness ==
    /\ last = WindowEvent(CloseRequested)
    /\ running /\ show_confirm
    /\ IsSome(main_table.context_menu)

\* C2: processing CancelExit yields show_confirm = FALSE and leaves every
\* field of main_table as it was before the message.
C2_CancelKeepsTable ==
    [][ Processed(CancelExit) =>
            /\ show_confirm' = FALSE
            /\ main_table'.events = main_table.events
            /\ main_table'.padding = main_table.padding
            /\ main_table'.separator = main_table.separator
            /\ main_table'.selected = main_table.selected
            /\ main_table'.last_cursor = main_table.last_cursor
            /\ main_table'.context_menu = main_table.context_menu
      ]_vars

\* CancelExit processed after the table was changed
C2_Witness ==
    /\ last = CancelExit
    /\ ~show_confirm
    /\ IsSome(main_table.selected) /\ IsSome(main_table.context_menu)
    /\ main_table.padding # TableDefault.padding

\* C3: the process terminates exactly in the steps that process ConfirmExit
\* or the TrayIconEvent of the registered Quit identifier, whatever the
\* state; no step is taken after termination.
C3_ExitExactlyOnConfirmOrQuit ==
    [][ /\ running
        /\ ~running' <=>
              \/ Processed(ConfirmExit)
              \/ /\ IsSome(registry[STR_QUIT])
                 /\ Processed(TrayIconEvent(Unwrap(registry[STR_QUIT])))
      ]_vars

\* the tray Quit terminated the process while the dialog, a selection and a
\* context menu were all present
C3_Witness ==
    /\ ~running
    /\ last = TrayIconEvent(QUIT_ID)
    /\ show_confirm
    /\ IsSome(main_table.selected) /\ IsSome(main_table.context_menu)

\* C4: with the registry holding the Show and Quit identifiers, a tray
\* event resolves to show exactly for the Show identifier and to quit exactly
\* for the Quit identifier; for every identifier but Quit the AppState is
\* left as it was and the process keeps running.
C4_TrayResolvesShowAndQuit ==
    [][ last'.tag = "TrayIconEvent" =>
            /\ registry = (STR_SHOW :> Some(SHOW_ID)) @@ (STR_QUIT :> Some(QUIT_ID))
            /\ handle_tray_icon_event(last'.id).show <=> last'.id = SHOW_ID
            /\ handle_tray_icon_event(last'.id).exit <=> last'.id = QUIT_ID
            /\ ~running' <=> last'.id = QUIT_ID
            /\ last'.id # QUIT_ID =>
                  /\ running'
                  /\ show_confirm' = show_confirm
                  /\ main_table' = main_table
      ]_vars

\* an identifier of neither menu item was handled while the dialog was open
C4_Witness ==
    /\ last = TrayIconEvent(OTHER_ID)
    /\ running /\ show_confirm
    /\ IsSome(main_table.selected)

\* C5: a right-button press with a known cursor (x, y) changes the context
\* menu only when floor((y - 36) / 36) is one of the rows 0..14, and then to
\* exactly (that row, x, y); an open context menu always has a row < 15 = the
\* number of events and a y > 36.
C5_ContextMenuRowInRange ==
    [][ /\ ( /\ IsOtherWindowEvent(last')
             /\ Scraped[DebugText[last'.event]].right
             /\ IsSome(main_table'.last_cursor)
             /\ main_table'.context_menu # main_table.context_menu )
           => /\ DerivedRow(Unwrap(main_table'.last_cursor)[2]) \in 0..14
              /\ main_table'.context_menu =
                    Some(<<DerivedRow(Unwrap(main_table'.last_cursor)[2]),
                           Unwrap(main_table'.last_cursor)[1],
                           Unwrap(main_table'.last_cursor)[2]>>)
        /\ IsSome(main_table'.context_menu)
           => /\ Unwrap(main_table'.context_menu)[1] < 15
              /\ Len(main_table'.events) = 15
              /\ Gt(Unwrap(main_table'.context_menu)[3], F(36))
      ]_vars

\* a right-button press opened the menu of the last row, 14, at y = 575.9
C5_Witness ==
    /\ last = WindowEvent([kind |-> "ButtonPressed", button |-> "Right"])
    /\ main_table.last_cursor = Some(<<F(-3), Dec(5759, 10)>>)
    /\ main_table.context_menu = Some(<<14, F(-3), Dec(5759, 10)>>)

\* the descriptions holding "x:" and "y:" numbers and a right-button marker
IsNumericRightPress(op) ==
    /\ IsOtherWindowEvent(op)
    /\ op.event.kind = "Described"
    /\ op.event.right
    /\ IsSome(op.event.xtext) /\ IsSome(ParseF32(Unwrap(op.event.xtext)))
    /\ IsSome(op.event.ytext) /\ IsSome(ParseF32(Unwrap(op.event.ytext)))

\* the cursor is the direct parse of the two numbers, and the context menu
\* of the same call is decided at that position
CursorIsDirectParse(op) ==
    /\ main_table'.last_cursor =
          Some(<<Unwrap(ParseF32(Unwrap(op.event.xtext))),
                 Unwrap(ParseF32(Unwrap(op.event.ytext)))>>)
    /\ main_table'.context_menu =
          IF /\ Gt(Unwrap(ParseF32(Unwrap(op.event.ytext))), F(36))
             /\ DerivedRow(Unwrap(ParseF32(Unwrap(op.event.ytext)))) \in 0..14
          THEN Some(<<DerivedRow(Unwrap(ParseF32(Unwrap(op.event.ytext)))),
                      Unwrap(ParseF32(Unwrap(op.event.xtext))),
                      Unwrap(ParseF32(Unwrap(op.event.ytext)))>>)
          ELSE main_table.context_menu

\* C6 as stated: every description with "x:" and "y:" numbers and a
\* right-button marker sets the cursor to the direct parse of the numbers and
\* decides the context menu there.
C6_Original_AnyNumericRightPress ==
    [][ IsNumericRightPress(last') => CursorIsDirectParse(last') ]_vars

\* C6 amended: the same, for the descriptions that also contain a move
\* marker ("CursorMoved", "Moved(" or "MovedPoint").
C6_MovedNumericRightPress ==
    [][ (IsNumericRightPress(last') /\ last'.event.moved)
            => CursorIsDirectParse(last') ]_vars

\* "CursorMoved x: 10 y: 100 ButtonPressed(Right)" handled from a state
\* with another cursor and menu: cursor (10, 100), menu on row 1
C6_Witness ==
    /\ last = WindowEvent(Described(TRUE, Some(TXT_10), Some(TXT_100), TRUE))
    /\ main_table.last_cursor = Some(<<F(10), F(100)>>)
    /\ main_table.context_menu = Some(<<1, F(10), F(100)>>)
    /\ IsSome(main_table.selected)

\* the descriptions that lack a parseable x or a parseable y
LacksCursor(event) ==
    \/ event.kind \in {"Focused", "ButtonPressed"}
    \/ /\ event.kind = "Described"
       /\ \/ ~IsSome(event.xtext) \/ ~IsSome(event.ytext)
          \/ ~IsSome(ParseF32(Unwrap(event.xtext)))
          \/ ~IsSome(ParseF32(Unwrap(event.ytext)))

\* C7: a description lacking a parseable x or a parseable y leaves
\* last_cursor as it was, and with no cursor known a right-button press
\* leaves the whole table as it was.
C7_FailedParseKeepsState ==
    [][ (IsOtherWindowEvent(last') /\ LacksCursor(last'.event)) =>
            /\ main_table'.last_cursor = main_table.last_cursor
            /\ (Scraped[DebugText[last'.event]].right /\ ~IsSome(main_table.last_cursor))
                  => main_table' = main_table
      ]_vars

\* "CursorMoved x: - y: 100" handled with a cursor known: it is kept
C7_Witness ==
    /\ last = WindowEvent(Described(TRUE, Some(TXT_Minus), Some(TXT_100), FALSE))
    /\ main_table.last_cursor = Some(<<F(7), F(576)>>)

\* C8: ShowDetails(i) stores i whatever i is; the modal is rendered exactly
\* when the selected index is below the number of events, and otherwise the
\* table rows are.
C8_ModalOnlyForExistingRow ==
    [][ /\ (last'.tag = "TbMsg" /\ last'.msg.tag = "ShowDetails")
              => main_table'.selected = Some(last'.msg.idx)
        /\ TableView(main_table').modal <=>
              /\ IsSome(main_table'.selected)
              /\ Unwrap(main_table'.selected) < Len(main_table'.events)
        /\ TableView(main_table').modal # TableView(main_table').rows
      ]_vars

\* index 15 selected: stored, and the table rows are rendered, not the modal
C8_Witness ==
    /\ last = TbMsg(ShowDetails(15))
    /\ main_table.selected = Some(15)
    /\ ~TableView(main_table).modal
    /\ TableView(main_table).rows

\* C9: the view never shows the context menu together with the modal; with
\* an existing row selected only the modal is shown and HideDetails is the
\* only message offered; the context menu is shown only without such a
\* selection.
C9_ModalHidesContextMenu ==
    /\ ~(TableView(main_table).modal /\ TableView(main_table).context)
    /\ (/\ IsSome(main_table.selected)
        /\ Unwrap(main_table.selected) < Len(main_table.events)
        /\ IsSome(main_table.context_menu))
          => /\ TableView(main_table).modal
             /\ TableView(main_table).messages = {HideDetails}
    /\ TableView(main_table).context
          => ~(/\ IsSome(main_table.selected)
               /\ Unwrap(main_table.selected) < Len(main_table.events))

\* an existing row is selected while a context menu is open
C9_Witness ==
    /\ main_table.selected = Some(14)
    /\ IsSome(main_table.context_menu)
    /\ TableView(main_table).modal
    /\ running

\* C10: a TbMsg and a window event other than the close request are applied
\* to main_table by the table's handlers whatever show_confirm is, and leave
\* show_confirm as it was.
C10_DispatchByTag ==
    [][ /\ last'.tag = "TbMsg" =>
              /\ main_table' = TableUpdate(main_table, last'.msg)
              /\ show_confirm' = show_confirm
        /\ IsOtherWindowEvent(last') =>
              /\ main_table' = on_window_event_debug(main_table, DebugText[last'.event])
              /\ show_confirm' = show_confirm
      ]_vars

\* a table message took effect while the confirmation dialog was shown
C10_Witness ==
    /\ show_confirm /\ running
    /\ last = TbMsg(ShowDetails(0))
    /\ main_table.selected = Some(0)

\* both menu items are in the registry under their labels
RegistryPopulated ==
    registry = (STR_SHOW :> Some(SHOW_ID)) @@ (STR_QUIT :> Some(QUIT_ID))

IsTick(op) == op.tag \in {"TrayIconEvent", "Noop"}

\* C11 as stated: whatever is pending, every identifier sent before a timer
\* tick has been delivered to update when that tick is done.
C11_DeliveredByNextTick ==
    [][ IsTick(last') => received' = sent ]_vars

\* C12: the Show and the Quit identifier are both registered before the tray
\* icon is created, before the forwarding thread starts, before the thread
\* sends and before handle_tray_icon_event reads the registry; the populated
\* registry is never modified.
C12_RegistryPopulatedBeforeRead ==
    [][ /\ pc' \in {"icon", "spawn", "run"} => RegistryPopulated'
        /\ last'.tag \in {"TraySend", "TrayIconEvent"} => RegistryPopulated
        /\ RegistryPopulated => registry' = registry
      ]_vars

\* handle_tray_icon_event has read the registry for the Show identifier
C12_Witness ==
    /\ pc = "run"
    /\ last = TrayIconEvent(SHOW_ID)
    /\ RegistryPopulated

\* C15: the identifiers delivered, followed by those still queued, are the
\* identifiers sent, in the order sent; a tick delivers the oldest queued
\* identifier and only that one, Noop exactly when nothing is queued; and with
\* the timer firing, the n-th identifier sent is delivered unless the process
\* terminates.
C15_BridgeKeepsOrder ==
    /\ [](sent = received \o channel)
    /\ [][ IsTick(last') =>
              /\ (last' = Noop) <=> (channel = << >>)
              /\ channel = << >> => received' = received
              /\ channel # << >> =>
                    /\ last' = TrayIconEvent(Head(channel))
                    /\ received' = Append(received, Head(channel))
                    /\ channel' = Tail(channel)
         ]_vars
    /\ \A n \in 1..MaxSends :
          [](Len(sent) >= n => <>(~running \/ Len(received) >= n))

\* two identifiers delivered in the order sent while a third waits
C15_Witness ==
    /\ sent = <<OTHER_ID, SHOW_ID, OTHER_ID>>
    /\ received = <<OTHER_ID, SHOW_ID>>
    /\ channel = <<OTHER_ID>>
    /\ last = TrayIconEvent(SHOW_ID)

\* values a pair message can carry: in and out of the slider ranges
PairValues == {F(0), F(30), Dec(25, 10), F(-4)}

IsTableMessage(op, tag) == op.tag = "TbMsg" /\ op.msg.tag = tag

\* what applying a message once more changes: nothing
Idempotent(self, message) ==
    TableUpdate(TableUpdate(self, message), message) = TableUpdate(self, message)

\* C13: PaddingChanged(x, y) leaves the table as it was but for padding =
\* (x, y), SeparatorChanged(x, y) as it was but for separator = (x, y), and
\* a second application of either changes nothing; for every table state
\* reached and every pair of values, and for the messages the application
\* processes.
C13_PairMessagesSetExactly ==
    /\ [](\A x \in PairValues, y \in PairValues :
            /\ TableUpdate(main_table, PaddingChanged(x, y))
                  = [main_table EXCEPT !.padding = <<x, y>>]
            /\ TableUpdate(main_table, SeparatorChanged(x, y))
                  = [main_table EXCEPT !.separator = <<x, y>>]
            /\ Idempotent(main_table, PaddingChanged(x, y))
            /\ Idempotent(main_table, SeparatorChanged(x, y)))
    /\ [][ /\ IsTableMessage(last', "PaddingChanged") =>
                 /\ main_table' =
                       [main_table EXCEPT !.padding = <<last'.msg.x, last'.msg.y>>]
                 /\ TableUpdate(main_table', last'.msg) = main_table'
           /\ IsTableMessage(last', "SeparatorChanged") =>
                 /\ main_table' =
                       [main_table EXCEPT !.separator = <<last'.msg.x, last'.msg.y>>]
                 /\ TableUpdate(main_table', last'.msg) = main_table'
         ]_vars

\* padding set to (0, 30) with a selection, a cursor and a context menu kept
C13_Witness ==
    /\ last = TbMsg(PaddingChanged(F(0), F(30)))
    /\ main_table.padding = <<F(0), F(30)>>
    /\ main_table.separator = <<F(5), F(0)>>
    /\ main_table.selected = Some(15)
    /\ IsSome(main_table.last_cursor)
    /\ IsSome(main_table.context_menu)

\* C14: from every table state reached and for every index, in range or
\* not, ShowDetails(i) followed by HideDetails gives that state with selected
\* = None; and a HideDetails processed right after a ShowDetails changes no
\* field but selected, which it clears.
C14_ShowThenHideClearsSelection ==
    /\ [](\A i \in IdxInputs :
            TableUpdate(TableUpdate(main_table, ShowDetails(i)), HideDetails)
               = [main_table EXCEPT !.selected = None])
    /\ [][ (IsTableMessage(last, "ShowDetails") /\ IsTableMessage(last', "HideDetails"))
              => main_table' = [main_table EXCEPT !.selected = None]
         ]_vars

\* the details were closed while a context menu and changed pairs exist
C14_Witness ==
    /\ last = TbMsg(HideDetails)
    /\ main_table.selected = None
    /\ main_table.context_menu = Some(<<14, F(-3), Dec(5759, 10)>>)
    /\ main_table.padding = <<F(0), F(30)>>

\* a right-button press that opens a menu: a cursor is known, its y is above
\* 36 and the row derived from it is one of the rows of the table
Qualifies(op, table) ==
    /\ Scraped[DebugText[op.event]].right
    /\ IsSome(table.last_cursor)
    /\ Gt(Unwrap(table.last_cursor)[2], F(36))
    /\ DerivedRow(Unwrap(table.last_cursor)[2]) < Len(table.events)

\* C17: an open context menu is closed by HideContext and by nothing else;
\* every other table message leaves context_menu as it was; a window event
\* leaves it as it was unless it is a qualifying right-button press, which
\* sets it to the row and position of the cursor; no other message touches
\* it.
C17_MenuClosedOnlyByHideContext ==
    [][ /\ (IsSome(main_table.context_menu) /\ ~IsSome(main_table'.context_menu))
              => last' = TbMsg(HideContext)
        /\ (last'.tag = "TbMsg" /\ last'.msg.tag # "HideContext")
              => main_table'.context_menu = main_table.context_menu
        /\ IsOtherWindowEvent(last') =>
              main_table'.context_menu =
                 IF Qualifies(last', main_table')
                 THEN Some(<<DerivedRow(Unwrap(main_table'.last_cursor)[2]),
                             Unwrap(main_table'.last_cursor)[1],
                             Unwrap(main_table'.last_cursor)[2]>>)
                 ELSE main_table.context_menu
        /\ (last'.tag \notin {"TbMsg", "WindowEvent"} \/ last' = WindowEvent(CloseRequested))
              => main_table'.context_menu = main_table.context_menu
      ]_vars

\* the menu's own "Show details" was pressed and the menu is still open
C17_Witness ==
    /\ last = TbMsg(ShowDetails(14))
    /\ main_table.selected = Some(14)
    /\ main_table.context_menu = Some(<<14, F(-3), Dec(5759, 10)>>)

\* C16: with every table message coming from the view, selected is None or
\* the index of an existing row; a ShowDetails the view emits carries the
\* index of a row or the row of the open context menu.
C16_SelectedInRange ==
    /\ [](\/ main_table.selected = None
          \/ Unwrap(main_table.selected) < Len(main_table.events))
    /\ [](\A m \in TableView(main_table).messages :
            m.tag = "ShowDetails" =>
                /\ m.idx < Len(main_table.events)
                /\ \/ m.idx \in 0..(Len(main_table.events) - 1)
                   \/ (/\ IsSome(main_table.context_menu)
                       /\ m.idx = Unwrap(main_table.context_menu)[1]))

\* row 1 selected from the context menu opened at y = 100
C16_Witness ==
    /\ last = TbMsg(ShowDetails(1))
    /\ main_table.selected = Some(1)
    /\ IsSome(main_table.context_menu)
    /\ Unwrap(main_table.context_menu)[1] = 1

\* what view renders in the current state
Rendered == view([show_confirm |-> show_confirm, main_table |-> main_table])

\* C18: the view shows the dialog or the table, never both and never
\* neither; with show_confirm it offers exactly Confirm and Cancel, without
\* it only table messages; ConfirmExit and CancelExit are processed only in
\* a state with show_confirm, and show_confirm, false at the start, becomes
\* true only by a close request, so an exit by ConfirmExit has a close
\* request before it.
C18_DialogAndTableExclusive ==
    /\ [](/\ Rendered.dialog # Rendered.table
          /\ Rendered.dialog = show_confirm
          /\ show_confirm => Rendered.messages = {ConfirmExit, CancelExit}
          /\ ~show_confirm => \A m \in Rendered.messages : m.tag = "TbMsg")
    /\ [][ /\ last' \in {ConfirmExit, CancelExit} => show_confirm
           /\ (~show_confirm /\ show_confirm') => last' = WindowEvent(CloseRequested)
           /\ (last' = ConfirmExit /\ ~running') => show_confirm
         ]_vars
    /\ [](last.tag = "Init" => (~show_confirm /\ running))

\* the process exited by the Confirm button of the dialog
C18_Witness ==
    /\ last = ConfirmExit
    /\ ~running
    /\ show_confirm

====
